---- MODULE Spec2Model ----
(***************************************************************************)
(* The /cors/* forwarding proxy of this repository.  The repository holds  *)
(* three definitions of the route handler:                                 *)
(*   "root" : src/unnamed/part_000, lines 16-86                            *)
(*   "api1" : src/api/index.js, lines 26-242                               *)
(*   "api2" : src/api/index.js, lines 288-472                              *)
(* A deployment runs one of them; the model keeps which in variant.        *)
(*                                                                         *)
(* Text (URLs, paths, code bodies) is a sequence of one-character strings, *)
(* so that percent-encoding, URL parsing and the regular-expression        *)
(* rewrites are computed character by character as the code computes them. *)
(***************************************************************************)
EXTENDS Integers, Sequences, FiniteSets, TLC

(***************************************************************************)
(* Characters                                                              *)
(***************************************************************************)
LowerAlpha == {"a","b","c","d","e","f","g","h","i","j","k","l","m","n","o","p","q","r","s","t","u","v","w","x","y","z"}
UpperAlpha == {"A","B","C","D","E","F","G","H","I","J","K","L","M","N","O","P","Q","R","S","T","U","V","W","X","Y","Z"}
Digits == {"0","1","2","3","4","5","6","7","8","9"}
AlphaNum == LowerAlpha \cup UpperAlpha \cup Digits
HexDigits == Digits \cup {"A","B","C","D","E","F","a","b","c","d","e","f"}

\* String.prototype.toLowerCase on one character
ToLower(c) ==
  CASE c = "A" -> "a" [] c = "B" -> "b" [] c = "C" -> "c" [] c = "D" -> "d"
    [] c = "E" -> "e" [] c = "F" -> "f" [] c = "G" -> "g" [] c = "H" -> "h"
    [] c = "I" -> "i" [] c = "J" -> "j" [] c = "K" -> "k" [] c = "L" -> "l"
    [] c = "M" -> "m" [] c = "N" -> "n" [] c = "O" -> "o" [] c = "P" -> "p"
    [] c = "Q" -> "q" [] c = "R" -> "r" [] c = "S" -> "s" [] c = "T" -> "t"
    [] c = "U" -> "u" [] c = "V" -> "v" [] c = "W" -> "w" [] c = "X" -> "x"
    [] c = "Y" -> "y" [] c = "Z" -> "z"
    [] OTHER -> c

LowerStr(s) == [i \in 1..Len(s) |-> ToLower(s[i])]

\* s.startsWith(p)
StartsWith(s, p) == Len(s) >= Len(p) /\ SubSeq(s, 1, Len(p)) = p
\* s.endsWith(p)
EndsWith(s, p) == Len(s) >= Len(p) /\ SubSeq(s, Len(s) - Len(p) + 1, Len(s)) = p
\* s.slice(n)
Drop(s, n) == SubSeq(s, n + 1, Len(s))
\* s.includes(p)
Includes(s, p) == \E i \in 0..(Len(s) - Len(p)) : SubSeq(s, i + 1, i + Len(p)) = p
\* the length of the longest prefix of s whose characters all lie outside stop
RECURSIVE RunLen(_, _)
RunLen(s, stop) ==
  IF s = <<>> \/ Head(s) \in stop THEN 0 ELSE 1 + RunLen(Tail(s), stop)

(***************************************************************************)
(* encodeURIComponent / decodeURIComponent (ECMAScript), on the ASCII      *)
(* characters the model uses.                                              *)
(***************************************************************************)
\* the characters encodeURIComponent leaves as they are
UriUnreserved == AlphaNum \cup {"-", "_", ".", "!", "~", "*", "'", "(", ")"}

\* the two hexadecimal digits of an escaped character code ("BT" stands
\* for the backtick character U+0060)
HexOf(c) ==
  CASE c = " " -> <<"2","0">> [] c = "\"" -> <<"2","2">> [] c = "#" -> <<"2","3">>
    [] c = "%" -> <<"2","5">> [] c = "," -> <<"2","C">> [] c = "/" -> <<"2","F">>
    [] c = ":" -> <<"3","A">> [] c = "<" -> <<"3","C">> [] c = "=" -> <<"3","D">>
    [] c = ">" -> <<"3","E">> [] c = "?" -> <<"3","F">> [] c = "[" -> <<"5","B">>
    [] c = "BT" -> <<"6","0">> [] c = "'" -> <<"2","7">> [] c = "(" -> <<"2","8">>
    [] c = ")" -> <<"2","9">>

Escaped == {" ", "\"", "#", "%", ",", "/", ":", "<", "=", ">", "?", "[", "BT"}

RECURSIVE EncodeURIComponent(_)
EncodeURIComponent(s) ==
  IF s = <<>> THEN <<>>
  ELSE IF Head(s) \in UriUnreserved
       THEN <<Head(s)>> \o EncodeURIComponent(Tail(s))
       ELSE <<"%">> \o HexOf(Head(s)) \o EncodeURIComponent(Tail(s))

\* The result of an operation that can throw: ok = FALSE stands for the throw.
Ok(v) == [ok |-> TRUE, v |-> v]
Throw == [ok |-> FALSE, v |-> <<>>]

\* a hexadecimal digit in upper case
UpHex(c) ==
  CASE c = "a" -> "A" [] c = "b" -> "B" [] c = "c" -> "C" [] c = "d" -> "D"
    [] c = "e" -> "E" [] c = "f" -> "F" [] OTHER -> c
\* the escapes the model can decode: those of the escaped characters and of
\* the quote and the parentheses
Decodable == Escaped \cup {"'", "(", ")"}
KnownEscape(p) == \E c \in Decodable : HexOf(c) = <<p[1], UpHex(p[2])>>
\* the character a two-digit escape stands for
UnHex(p) == CHOOSE c \in Decodable : HexOf(c) = <<p[1], UpHex(p[2])>>

\* decodeURIComponent: a "%" that is not followed by two hexadecimal digits
\* throws URIError.  (Escapes of characters outside Escaped do not occur in
\* the inputs of the model.)
RECURSIVE DecodeURIComponent(_)
DecodeURIComponent(s) ==
  IF s = <<>> THEN Ok(<<>>)
  ELSE IF Head(s) # "%"
       THEN LET r == DecodeURIComponent(Tail(s))
            IN IF r.ok THEN Ok(<<Head(s)>> \o r.v) ELSE Throw
       ELSE IF Len(s) >= 3 /\ s[2] \in HexDigits /\ s[3] \in HexDigits
                 /\ KnownEscape(<<s[2], s[3]>>)
            THEN LET r == DecodeURIComponent(Drop(s, 3))
                 IN IF r.ok THEN Ok(<<UnHex(<<s[2], s[3]>>)>> \o r.v) ELSE Throw
            ELSE Throw

(***************************************************************************)
(* new URL(input, base) and URL.prototype.toString (WHATWG URL), for the   *)
(* special schemes http, https and ftp.  Not modelled, and absent from the *)
(* inputs: userinfo, IPv6 and numeric hosts, backslashes, tabs and         *)
(* newlines, non-special schemes.                                          *)
(***************************************************************************)
S_http == <<"h","t","t","p">>
S_https == <<"h","t","t","p","s">>
S_ftp == <<"f","t","p">>
SpecialSchemes == {S_http, S_https, S_ftp}

NoURL ==
  [ok |-> FALSE, scheme |-> <<>>, host |-> <<>>, port |-> <<>>, segs |-> <<>>,
   hasQuery |-> FALSE, query |-> <<>>, hasFrag |-> FALSE, frag |-> <<>>]

DefaultPort(scheme) ==
  CASE scheme = S_http -> <<"8","0">>
    [] scheme = S_https -> <<"4","4","3">>
    [] scheme = S_ftp -> <<"2","1">>

\* leading and trailing spaces are stripped before parsing
RECURSIVE TrimLeft(_)
TrimLeft(s) == IF s # <<>> /\ Head(s) = " " THEN TrimLeft(Tail(s)) ELSE s
RECURSIVE TrimRight(_)
TrimRight(s) ==
  IF s # <<>> /\ s[Len(s)] = " " THEN TrimRight(SubSeq(s, 1, Len(s) - 1)) ELSE s
Trim(s) == TrimRight(TrimLeft(s))

\* the length of the scheme s starts with (0 when it starts with none): a
\* letter, then letters, digits, "+", "-", ".", then ":"
SchemeLen(s) ==
  IF s = <<>> \/ Head(s) \notin (LowerAlpha \cup UpperAlpha) THEN 0
  ELSE LET n == RunLen(s, {c \in {s[i] : i \in 1..Len(s)} :
                              c \notin (AlphaNum \cup {"+", "-", "."})})
       IN IF n < Len(s) /\ s[n + 1] = ":" THEN n ELSE 0

\* the slashes after a special scheme are skipped, however many
RECURSIVE TrimLeftSlashes(_)
TrimLeftSlashes(s) == IF s # <<>> /\ Head(s) = "/" THEN TrimLeftSlashes(Tail(s)) ELSE s

\* s split at every occurrence of the character d
RECURSIVE Split(_, _)
Split(s, d) ==
  LET n == RunLen(s, {d})
  IN IF n = Len(s) THEN <<s>> ELSE <<SubSeq(s, 1, n)>> \o Split(Drop(s, n + 1), d)

\* the segments joined, each preceded by d
RECURSIVE JoinLead(_, _)
JoinLead(segs, d) ==
  IF segs = <<>> THEN <<>> ELSE <<d>> \o Head(segs) \o JoinLead(Tail(segs), d)

\* percent-encoding of the characters of set in s
RECURSIVE PctEncode(_, _)
PctEncode(s, set) ==
  IF s = <<>> THEN <<>>
  ELSE IF Head(s) \in set
       THEN <<"%">> \o HexOf(Head(s)) \o PctEncode(Tail(s), set)
       ELSE <<Head(s)>> \o PctEncode(Tail(s), set)

PathEncodeSet == {" ", "\"", "<", ">", "BT"}
QueryEncodeSet == {" ", "\"", "<", ">", "'"}
FragEncodeSet == {" ", "\"", "<", ">", "BT"}

\* the path segments of raw appended to acc, dot segments resolved
RECURSIVE AddSegs(_, _)
AddSegs(acc, raw) ==
  IF raw = <<>> THEN acc
  ELSE LET seg == Head(raw)
           last == Len(raw) = 1
           popped == IF acc = <<>> THEN acc ELSE SubSeq(acc, 1, Len(acc) - 1)
       IN IF seg = <<".", ".">>
          THEN AddSegs(IF last THEN Append(popped, <<>>) ELSE popped, Tail(raw))
          ELSE IF seg = <<".">>
               THEN AddSegs(IF last THEN Append(acc, <<>>) ELSE acc, Tail(raw))
               ELSE AddSegs(Append(acc, PctEncode(seg, PathEncodeSet)), Tail(raw))

\* percent-decoding as the host parser does it: an ill-formed "%" is kept
RECURSIVE HostDecode(_)
HostDecode(s) ==
  IF s = <<>> THEN <<>>
  ELSE IF Head(s) = "%" /\ Len(s) >= 3 /\ s[2] \in HexDigits /\ s[3] \in HexDigits
            /\ KnownEscape(<<s[2], s[3]>>)
       THEN <<UnHex(<<s[2], s[3]>>)>> \o HostDecode(Drop(s, 3))
       ELSE <<Head(s)>> \o HostDecode(Tail(s))

ForbiddenHost == {" ", "#", "/", ":", "<", ">", "?", "[", "%"}

\* u with the path, query and fragment of rest; rest is empty or starts with
\* "/", "?" or "#"; the path starts from the segments base
WithPathQF(u, base, rest) ==
  LET b == RunLen(rest, {"#"})
      beforeFrag == SubSeq(rest, 1, b)
      q == RunLen(beforeFrag, {"?"})
      p == SubSeq(beforeFrag, 1, q)
      raw == IF p = <<>> THEN <<>> ELSE Split(Drop(p, 1), "/")
      segs == AddSegs(base, raw)
  IN [u EXCEPT !.segs = IF segs = <<>> THEN << <<>> >> ELSE segs,
               !.hasQuery = q < Len(beforeFrag),
               !.query = PctEncode(Drop(beforeFrag, q + 1), QueryEncodeSet),
               !.hasFrag = b < Len(rest),
               !.frag = PctEncode(Drop(rest, b + 1), FragEncodeSet)]

\* scheme://authority...: rest is what follows the slashes after the scheme
WithAuthority(scheme, rest) ==
  LET a == RunLen(rest, {"/", "?", "#"})
      auth == SubSeq(rest, 1, a)
      h == RunLen(auth, {":"})
      host == LowerStr(HostDecode(SubSeq(auth, 1, h)))
      port == Drop(auth, h + 1)
  IN IF host = <<>> \/ (\E i \in 1..Len(host) : host[i] \in ForbiddenHost)
        \/ (\E i \in 1..Len(port) : port[i] \notin Digits)
     THEN NoURL
     ELSE WithPathQF([NoURL EXCEPT !.ok = TRUE, !.scheme = scheme, !.host = host,
                        !.port = IF port = DefaultPort(scheme) THEN <<>> ELSE port],
                     <<>>, Drop(rest, a))

\* a reference without a scheme, resolved against base
Relative(r, base) ==
  IF StartsWith(r, <<"/", "/">>) THEN WithAuthority(base.scheme, TrimLeftSlashes(r))
  ELSE IF r = <<>> THEN [base EXCEPT !.hasFrag = FALSE, !.frag = <<>>]
  ELSE IF Head(r) = "/" THEN WithPathQF(base, <<>>, r)
  ELSE IF Head(r) = "#"
       THEN [base EXCEPT !.hasFrag = TRUE, !.frag = PctEncode(Tail(r), FragEncodeSet)]
  ELSE IF Head(r) = "?"
       THEN WithPathQF([base EXCEPT !.segs = <<>>], base.segs, r)
  ELSE LET n == RunLen(r, {"?", "#"})
           dir == SubSeq(base.segs, 1, Len(base.segs) - 1)
       IN WithPathQF(base, dir, <<"/">> \o r)

\* new URL(input, base); base = NoURL stands for new URL(input)
ParseURL(input, base) ==
  LET s == Trim(input)
      n == SchemeLen(s)
      scheme == LowerStr(SubSeq(s, 1, n))
      rest == Drop(s, n + 1)
  IN IF n = 0 THEN (IF base.ok THEN Relative(s, base) ELSE NoURL)
     ELSE CASE scheme \in SpecialSchemes ->
            IF base.ok /\ base.scheme = scheme /\ ~StartsWith(rest, <<"/">>)
            THEN Relative(rest, base)
            ELSE WithAuthority(scheme, TrimLeftSlashes(rest))

\* URL.prototype.pathname
Pathname(u) == JoinLead(u.segs, "/")

\* URL.prototype.toString
Serialize(u) ==
  u.scheme \o <<":", "/", "/">> \o u.host
    \o (IF u.port = <<>> THEN <<>> ELSE <<":">> \o u.port)
    \o Pathname(u)
    \o (IF u.hasQuery THEN <<"?">> \o u.query ELSE <<>>)
    \o (IF u.hasFrag THEN <<"#">> \o u.frag ELSE <<>>)

(***************************************************************************)
(* The rewrites                                                            *)
(***************************************************************************)
PREFIX == <<"/","c","o","r","s","/">>
Http == <<"h","t","t","p",":","/","/">>
Https == <<"h","t","t","p","s",":","/","/">>

\* origin + PREFIX + encodeURIComponent(url): the proxy address of url
Proxied(origin, url) == origin \o PREFIX \o EncodeURIComponent(url)

WhiteSpace == {" "}
Quotes == {"\"", "'", "BT"}
OpenDelims == Quotes \cup {"("}
CloseDelims == Quotes \cup {")"}

\* the length of the https?:\/\/ that s starts with, 0 when it starts with none
HttpPrefixLen(s) ==
  IF StartsWith(s, Https) THEN Len(Https)
  ELSE IF StartsWith(s, Http) THEN Len(Http) ELSE 0

\* codeText.replace(/(["'BT(])(https?:\/\/[^"'BT)\s]+)(["'BT)]?)/g, ...) of the
\* api handlers (validate: new URL(urlStr) must not throw, the URL may not
\* hold white space) and /(["'BT(])(https?:\/\/[^"'BT)]+)(["'BT)]?)/g of root
RECURSIVE ReplaceUrls(_, _, _, _)
ReplaceUrls(s, origin, stop, validate) ==
  IF s = <<>> THEN <<>>
  ELSE LET t == Tail(s)
           pre == HttpPrefixLen(t)
           n == RunLen(Drop(t, pre), stop)
           urlStr == SubSeq(t, 1, pre + n)
           after == Drop(t, pre + n)
           hasClose == after # <<>> /\ Head(after) \in CloseDelims
           close == IF hasClose THEN <<Head(after)>> ELSE <<>>
           rest == IF hasClose THEN Tail(after) ELSE after
           match == <<Head(s)>> \o urlStr \o close
       IN IF Head(s) \in OpenDelims /\ pre > 0 /\ n > 0
          THEN (IF validate => ParseURL(urlStr, NoURL).ok
                THEN <<Head(s)>> \o Proxied(origin, urlStr) \o close
                ELSE match)
               \o ReplaceUrls(rest, origin, stop, validate)
          ELSE <<Head(s)>> \o ReplaceUrls(t, origin, stop, validate)

W_import == <<"i","m","p","o","r","t">>

\* codeText.replace(/import\s*\(\s*(["'BT])(https?:\/\/[^"'BT\s]+)\1\s*\)/g, ...)
RECURSIVE ReplaceImports(_, _)
ReplaceImports(s, origin) ==
  IF s = <<>> THEN <<>>
  ELSE LET a == Drop(s, Len(W_import))
           b == Drop(a, RunLen(a, {c \in {a[i] : i \in 1..Len(a)} : c \notin WhiteSpace}))
           c == Drop(b, 1)
           d == Drop(c, RunLen(c, {x \in {c[i] : i \in 1..Len(c)} : x \notin WhiteSpace}))
           quote == IF d = <<>> THEN "" ELSE Head(d)
           e == Drop(d, 1)
           pre == HttpPrefixLen(e)
           n == RunLen(Drop(e, pre), Quotes \cup WhiteSpace)
           urlStr == SubSeq(e, 1, pre + n)
           f == Drop(e, pre + n)
           g == Drop(f, 1)
           h == Drop(g, RunLen(g, {x \in {g[i] : i \in 1..Len(g)} : x \notin WhiteSpace}))
           matches == /\ StartsWith(s, W_import)
                      /\ b # <<>> /\ Head(b) = "("
                      /\ quote \in Quotes
                      /\ pre > 0 /\ n > 0
                      /\ f # <<>> /\ Head(f) = quote
                      /\ h # <<>> /\ Head(h) = ")"
           match == SubSeq(s, 1, Len(s) - Len(h) + 1)
       IN IF matches
          THEN (IF ParseURL(urlStr, NoURL).ok
                THEN W_import \o <<"(", quote>> \o Proxied(origin, urlStr) \o <<quote, ")">>
                ELSE match)
               \o ReplaceImports(Tail(h), origin)
          ELSE <<Head(s)>> \o ReplaceImports(Tail(s), origin)

\* The Source-Text rewrite of the api handlers: both passes
RewriteCodeApi(text, origin) ==
  ReplaceImports(ReplaceUrls(text, origin, CloseDelims \cup WhiteSpace, TRUE), origin)

\* The Source-Text rewrite of root: one pass, no validation
RewriteCodeRoot(text, origin) == ReplaceUrls(text, origin, CloseDelims, FALSE)

\* An HTML body is the sequence of its elements that carry a URL attribute,
\* [tag, attr, val]; in the text of the document the attribute is written
\* attr="val".

\* the element/attribute pairs of the rewriteAttribute calls
AttrPairs ==
  {<<"img", "src">>, <<"script", "src">>, <<"link", "href">>, <<"a", "href">>,
   <<"form", "action">>}

\* one candidate of a srcset: part.trim().split(/\s+/), resolved and encoded;
\* the part as it was when its URL does not parse
SrcsetPart(part, origin, targetUrl) ==
  LET t == Trim(part)
      n == RunLen(t, WhiteSpace)
      urlPart == SubSeq(t, 1, n)
      r == TrimLeft(Drop(t, n))
      descriptor == SubSeq(r, 1, RunLen(r, WhiteSpace))
      u == ParseURL(urlPart, targetUrl)
  IN IF u.ok
     THEN Proxied(origin, Serialize(u))
            \o (IF descriptor # <<>> THEN <<" ">> \o descriptor ELSE <<>>)
     ELSE part

\* parts.join(', ')
RECURSIVE JoinComma(_)
JoinComma(parts) ==
  IF parts = <<>> THEN <<>>
  ELSE IF Len(parts) = 1 THEN Head(parts)
       ELSE Head(parts) \o <<",", " ">> \o JoinComma(Tail(parts))

RewriteSrcset(val, origin, targetUrl) ==
  LET parts == Split(val, ",")
  IN JoinComma([i \in 1..Len(parts) |-> SrcsetPart(parts[i], origin, targetUrl)])

\* the cheerio rewrite of the api handlers, for one element
RewriteElemApi(el, origin, targetUrl) ==
  IF <<el.tag, el.attr>> \in AttrPairs /\ el.val # <<>>
  THEN LET u == ParseURL(el.val, targetUrl)
       IN IF u.ok THEN [el EXCEPT !.val = Proxied(origin, Serialize(u))] ELSE el
  ELSE IF el.tag \in {"img", "source"} /\ el.attr = "srcset" /\ el.val # <<>>
       THEN [el EXCEPT !.val = RewriteSrcset(el.val, origin, targetUrl)]
       ELSE el

RewriteHtmlApi(elems, origin, targetUrl) ==
  [i \in 1..Len(elems) |-> RewriteElemApi(elems[i], origin, targetUrl)]

\* whether /(src|href|action)="(https?:\/\/[^"'BT]+)"/ matches the attribute
RootMatches(el) ==
  LET pre == HttpPrefixLen(el.val)
  IN /\ el.attr \in {"src", "href", "action"}
     /\ pre > 0
     /\ Len(el.val) > pre
     /\ RunLen(el.val, Quotes) = Len(el.val)

\* rewriteHtmlLinks of root: new URL(url, baseUrl) is not guarded, so one
\* matched value that does not parse throws out of the whole rewrite
RewriteHtmlLinks(elems, origin, baseUrl) ==
  IF \E i \in 1..Len(elems) : RootMatches(elems[i]) /\ ~ParseURL(elems[i].val, baseUrl).ok
  THEN Throw
  ELSE Ok([i \in 1..Len(elems) |->
            IF RootMatches(elems[i])
            THEN [elems[i] EXCEPT !.val =
                    origin \o PREFIX
                      \o EncodeURIComponent(Serialize(ParseURL(elems[i].val, baseUrl)))]
            ELSE elems[i]])

(***************************************************************************)
(* Headers: a function from lower-case header names to values              *)
(***************************************************************************)
NoHeaders == [n \in {} |-> <<>>]
SetH(h, n, v) == [m \in DOMAIN h \cup {n} |-> IF m = n THEN v ELSE h[m]]
DelH(h, ns) == [m \in DOMAIN h \ ns |-> h[m]]
HasH(h, n) == n \in DOMAIN h
\* h.get(n) || ''
GetH(h, n) == IF n \in DOMAIN h THEN h[n] ELSE <<>>

Star == <<"*">>
ACAO == "access-control-allow-origin"
ACAH == "access-control-allow-headers"
ACEH == "access-control-expose-headers"
\* the Content-Length that res.send / res.json compute from the body they send
FreshLength == <<"length of the body sent">>
Json == <<"a","p","p","l","i","c","a","t","i","o","n","/","j","s","o","n">>
T_text == <<"t","e","x","t">>
T_html == <<"t","e","x","t","/","h","t","m","l">>
T_plain == <<"t","e","x","t","/","p","l","a","i","n">>
T_javascript == <<"j","a","v","a","s","c","r","i","p","t">>
T_typescript == <<"t","y","p","e","s","c","r","i","p","t">>

\* /\.(?:ts|js|mjs|cjs)$/i of the api handlers
IsCodeApi(pathname) ==
  \E e \in {<<".","t","s">>, <<".","j","s">>, <<".","m","j","s">>, <<".","c","j","s">>} : EndsWith(LowerStr(pathname), e)
\* /\.(ts|js)$/i of root
IsCodeRoot(pathname) ==
  \E e \in {<<".","t","s">>, <<".","j","s">>} : EndsWith(LowerStr(pathname), e)

\* /^https?:\/\//i.test(target)
HasHttpScheme(target) == HttpPrefixLen(LowerStr(target)) > 0

\* (mutant) the scheme is prepended whether or not the target has one
CoerceAlways(target) == Http \o target

\* If they forgot scheme, default to http://
Coerce(target) == IF HasHttpScheme(target) THEN target ELSE Http \o target

isValidUrl(urlString) ==
  LET url == ParseURL(urlString, NoURL)
  IN url.ok /\ url.scheme \in {S_http, S_https}

(***************************************************************************)
(* Inputs                                                                  *)
(***************************************************************************)
\* Bound: the longest HTML body, in elements
MaxElems == 2
\* axios follows up to 5 redirects unless maxRedirects says otherwise
MaxRedirects == 5

Variants == {"root", "api1", "api2"}
ApiVariants == {"api1", "api2"}

\* req.protocol + '://' + req.get('host')
HostOrigin == <<"h","t","t","p",":","/","/","p">>

\* target URLs a client asks for, as the client writes them
U_old == <<"h","t","t","p","s",":","/","/","e",".","c","/","o","l","d">>
U_bare == <<"h","t","t","p","s",":","/","/","e",".","c">>
U_upper == <<"H","T","T","P",":","/","/","E",".","c",":","8","0","/","A",".","J","S">>
U_mjs == <<"h","t","t","p","s",":","/","/","e",".","c","/","m",".","m","j","s">>
U_js == <<"h","t","t","p",":","/","/","e",".","c","/","a",".","j","s","?","x","=","1","#","f">>
U_ftp == <<"f","t","p",":","/","/","x">>
U_notaurl == <<"n","o","t"," ","a"," ","u","r","l">>
TargetInputs == {U_old, U_bare, U_upper, U_mjs, U_js, U_ftp, U_notaurl}

\* req.url (= req.originalUrl: the app is mounted at the root).  The route
\* matches without regard to case; a malformed escape reaches the handler
\* only in the query, the router rejects one in the path.
R_empty == PREFIX
R_noscheme == PREFIX \o <<"e",".","c","/","t",".","t","s">>
R_badescape == PREFIX \o <<"e",".","c","?","%">>
R_upperprefix == <<"/","C","O","R","S","/">> \o EncodeURIComponent(U_old)
RequestUrls ==
  {PREFIX \o EncodeURIComponent(u) : u \in TargetInputs}
    \cup {R_empty, R_noscheme, R_badescape, R_upperprefix}

ClientValue(n) == <<"client value of", n>>
ClientHeaders(names) == [n \in names |-> ClientValue(n)]
\* (method, headers) of the inbound requests
ClientRequests ==
  {[method |-> "GET", headers |-> ClientHeaders({"host", "origin", "referer", "accept"})],
   [method |-> "POST", headers |-> ClientHeaders({"host", "content-length", "x-custom"})]}

Elem(tag, attr, val) == [tag |-> tag, attr |-> attr, val |-> val]
V_logo == <<"/","l","o","g","o",".","p","n","g">>
V_abs == <<"h","t","t","p","s",":","/","/","o",".","c","/","x">>
V_bad == <<"h","t","t","p",":","/","/","[">>
V_set == <<"a",".","p","n","g"," ","1","x",","," ","h","t","t","p","s",":","/","/","o",".","c","/","b",".","p","n","g"," ","2","x">>
V_badset == <<"h","t","t","p",":","/","/","["," ","2","x",",","b",".","p","n","g">>
CuratedElems ==
  {Elem("img", "src", V_logo), Elem("a", "href", V_abs), Elem("script", "src", V_bad),
   Elem("img", "srcset", V_set), Elem("source", "srcset", V_badset)}

K_fetch == <<"f","e","t","c","h","(","\"","h","t","t","p","s",":","/","/","a",".","b","/","d","\"",")">>
K_import == <<"i","m","p","o","r","t","(","'","h","t","t","p","s",":","/","/","x","/","'",")">>
K_import_bt == <<"i","m","p","o","r","t","(","BT","h","t","t","p","s",":","/","/","x","/","BT",")">>
K_plain == <<"x"," ","="," ","\"","h","e","l","l","o","\"">>
K_paren == <<"(","h","t","t","p","s",":","/","/","a"," ","b",")">>
K_bad == <<"BT","h","t","t","p",":","/","/","[","BT">>
EmptyBody == [elems |-> <<>>, text |-> <<>>]
HtmlBody(elems) == [elems |-> elems, text |-> <<>>]
CodeBody(text) == [elems |-> <<>>, text |-> text]
\* an HTML document with an image and an inline script
MixedBody == [elems |-> <<Elem("img", "src", V_logo)>>, text |-> K_fetch]
HtmlBodies == {HtmlBody(e) : e \in UNION {[1..n -> CuratedElems] : n \in 1..MaxElems}}

CodeBodies == {CodeBody(t) : t \in {K_fetch, K_import, K_import_bt, K_plain, K_paren, K_bad}}

CT_html == <<"t","e","x","t","/","h","t","m","l",";"," ","c","h","a","r","s","e","t","=","u","t","f","-","8">>
CT_js == <<"a","p","p","l","i","c","a","t","i","o","n","/","j","a","v","a","s","c","r","i","p","t">>
CT_tjs == <<"t","e","x","t","/","j","a","v","a","s","c","r","i","p","t">>
CT_plain == <<"t","e","x","t","/","p","l","a","i","n">>
CT_css == <<"t","e","x","t","/","c","s","s">>
CT_png == <<"i","m","a","g","e","/","p","n","g">>
ContentTypes == {CT_html, CT_js, CT_tjs, CT_plain, CT_css, CT_png}

L_rel == <<"/","n","e","w">>
L_abs == <<"h","t","t","p","s",":","/","/","o",".","c","/","n">>
L_bad == <<"h","t","t","p",":","/","/","[">>
Locations == {L_rel, L_abs, L_bad}

UpValue(n) == <<"upstream value of", n>>
\* the other headers an upstream may send
ExtraHeaders ==
  {[n \in ns |-> UpValue(n)] :
     ns \in {{}, {"content-length", "content-encoding"},
             {"content-length", ACAO, ACEH, "x-up"}}}

Merge(h, g) == [n \in DOMAIN h \cup DOMAIN g |-> IF n \in DOMAIN g THEN g[n] ELSE h[n]]
Response(status, headers, body) == [status |-> status, headers |-> headers, body |-> body]

\* the responses an upstream gives, in four families
HeaderFamily ==
  {Response(st, Merge(x, ct), b) :
     st \in {200, 404}, x \in ExtraHeaders,
     ct \in {NoHeaders} \cup {SetH(NoHeaders, "content-type", t) : t \in ContentTypes},
     b \in {MixedBody}}
RedirectFamily ==
  {Response(st, Merge(l, ct), HtmlBody(<<Elem("a", "href", V_abs)>>)) :
     st \in {301, 304},
     l \in {NoHeaders} \cup {SetH(NoHeaders, "location", v) : v \in Locations},
     ct \in {NoHeaders, SetH(NoHeaders, "content-type", CT_html)}}
HtmlFamily ==
  {Response(200, SetH(NoHeaders, "content-type", CT_html), b) : b \in HtmlBodies}
CodeFamily ==
  {Response(200, SetH(NoHeaders, "content-type", t), b) :
     t \in {CT_js, CT_plain}, b \in CodeBodies}
UpstreamResponses == HeaderFamily \cup RedirectFamily \cup HtmlFamily \cup CodeFamily

(***************************************************************************)
(* The handlers                                                            *)
(***************************************************************************)
NoReq == [url |-> <<>>, method |-> "", headers |-> NoHeaders]
NoUpReq == [url |-> <<>>, method |-> "", headers |-> NoHeaders, hasData |-> FALSE]
NoResponse == Response(0, NoHeaders, EmptyBody)
NoRes == [sent |-> FALSE, status |-> 0, headers |-> NoHeaders, body |-> EmptyBody,
          error |-> ""]
Sent(status, headers, body) ==
  [sent |-> TRUE, status |-> status, headers |-> headers, body |-> body, error |-> ""]
\* res.status(status).json({error: ...}) on top of the headers already set
SentJson(status, headers, error) ==
  [sent |-> TRUE, status |-> status,
   headers |-> SetH(SetH(headers, "content-type", Json), "content-length", FreshLength),
   body |-> EmptyBody, error |-> error]
\* res.send(body): Express computes Content-Length from the body it sends
Send(status, headers, body) == Sent(status, SetH(headers, "content-length", FreshLength), body)

\* strategy: the branch of the classification the handler took ("none" when
\* it took none); res: the response it wrote, an error response when the
\* branch threw
Outcome(strategy, res) == [strategy |-> strategy, res |-> res]

\* The api handlers up to the upstream call (src/api/index.js 28-76):
\* the response when the request is refused, or the request to forward
StartApi(r) ==
  LET encodedTargetUrl == Drop(r.url, Len(PREFIX))
      decoded == DecodeURIComponent(encodedTargetUrl)
      target == Coerce(decoded.v)
      targetUrl == ParseURL(target, NoURL)
      requestHeaders == DelH(r.headers, {"host", "origin", "referer", "content-length"})
  IN IF encodedTargetUrl = <<>>
     THEN [forward |-> FALSE, res |-> SentJson(400, NoHeaders, "Target URL is missing after /cors/"),
           targetUrl |-> NoURL, upReq |-> NoUpReq]
     ELSE IF ~decoded.ok
     THEN [forward |-> FALSE, res |-> SentJson(400, NoHeaders, "Invalid URL encoding."),
           targetUrl |-> NoURL, upReq |-> NoUpReq]
     ELSE IF ~isValidUrl(target)
     THEN [forward |-> FALSE,
           res |-> SentJson(400, NoHeaders, "Invalid target URL or unsupported protocol."),
           targetUrl |-> NoURL, upReq |-> NoUpReq]
     ELSE [forward |-> TRUE, res |-> NoRes, targetUrl |-> targetUrl,
           upReq |-> [url |-> Serialize(targetUrl), method |-> r.method,
                      headers |-> requestHeaders,
                      hasData |-> r.method \notin {"GET", "HEAD"}]]

\* the catch of the api handlers for an error that carries no response
\* (src/api/index.js 238-240, 468-470); set: the headers already on res
CatchApi(set) == SentJson(500, SetH(SetH(set, ACAO, Star), ACAH, Star), "Proxy server error")

\* The api handlers from the upstream response on (src/api/index.js 81-213,
\* 334-447)
FinishApi(v, targetUrl, up) ==
  LET responseHeaders == up.headers
      cors == SetH(SetH(SetH(responseHeaders, ACAO, Star), ACAH, Star), ACEH, Star)
      contentType == GetH(cors, "content-type")
      copied == IF Includes(contentType, T_text)
                THEN DelH(cors, {"content-encoding", "content-length"})
                ELSE cors
      rewritten == IF v = "api2"
                   THEN DelH(copied, {"content-length", "content-encoding"})
                   ELSE DelH(copied, {"content-length"})
  IN IF up.status >= 300 /\ up.status < 400 /\ HasH(responseHeaders, "location")
     THEN LET absoluteRedirectUrl == ParseURL(responseHeaders["location"], targetUrl)
          IN IF ~absoluteRedirectUrl.ok THEN Outcome("redirect", CatchApi(NoHeaders))
             ELSE Outcome("redirect",
                    Sent(up.status,
                         SetH(SetH(SetH(NoHeaders, "location",
                                        Proxied(HostOrigin, Serialize(absoluteRedirectUrl))),
                                   ACAO, Star), ACAH, Star),
                         EmptyBody))
     ELSE IF Includes(contentType, T_html)
     THEN Outcome("markup",
            Send(up.status, rewritten,
                 [up.body EXCEPT !.elems = RewriteHtmlApi(up.body.elems, HostOrigin, targetUrl)]))
     ELSE IF IsCodeApi(Pathname(targetUrl))
             /\ (Includes(contentType, T_javascript) \/ Includes(contentType, T_typescript)
                   \/ Includes(contentType, T_plain))
     THEN Outcome("source",
            Send(up.status, rewritten,
                 [up.body EXCEPT !.text = RewriteCodeApi(up.body.text, HostOrigin)]))
     ELSE Outcome("passthrough", Send(up.status, copied, up.body))

\* root up to the upstream call (src/unnamed/part_000 17-44).  escaped: an
\* exception thrown before the try leaves the handler, no response written.
StartRoot(r) ==
  LET decodable == DecodeURIComponent(Drop(r.url, Len(PREFIX)))
      target == Coerce(decodable.v)
      targetUrl == ParseURL(target, NoURL)
  IN IF ~StartsWith(r.url, PREFIX)
     THEN [forward |-> FALSE, escaped |-> FALSE,
           res |-> Sent(302, SetH(NoHeaders, "location", Proxied(HostOrigin, r.url)), EmptyBody),
           targetUrl |-> NoURL, upReq |-> NoUpReq]
     ELSE IF ~decodable.ok \/ ~targetUrl.ok
     THEN [forward |-> FALSE, escaped |-> TRUE, res |-> NoRes,
           targetUrl |-> NoURL, upReq |-> NoUpReq]
     ELSE [forward |-> TRUE, escaped |-> FALSE, res |-> NoRes, targetUrl |-> targetUrl,
           upReq |-> [url |-> Serialize(targetUrl), method |-> r.method,
                      headers |-> r.headers, hasData |-> TRUE]]

\* the catch of root (src/unnamed/part_000 83-85)
CatchRoot == SentJson(500, NoHeaders, "e.toString()")

\* root from the upstream response on (src/unnamed/part_000 50-82)
FinishRoot(targetUrl, up) ==
  LET isRedirect == up.status >= 300 /\ up.status < 400 /\ HasH(up.headers, "location")
      loc == ParseURL(GetH(up.headers, "location"), targetUrl)
      located == IF isRedirect
                 THEN SetH(up.headers, "location", Proxied(HostOrigin, Serialize(loc)))
                 ELSE up.headers
      headers == SetH(SetH(located, ACAO, Star), ACAH, Star)
      contentType == GetH(headers, "content-type")
      html == RewriteHtmlLinks(up.body.elems, HostOrigin, targetUrl)
  IN IF isRedirect /\ ~loc.ok THEN Outcome("redirect", CatchRoot)
     ELSE IF Includes(contentType, T_html)
     THEN (IF html.ok
           THEN Outcome("markup", Send(up.status, headers, [up.body EXCEPT !.elems = html.v]))
           ELSE Outcome("markup", CatchRoot))
     ELSE IF IsCodeRoot(Pathname(targetUrl)) /\ Includes(contentType, T_text)
     THEN Outcome("source",
            Send(up.status, headers,
                 [up.body EXCEPT !.text = RewriteCodeRoot(up.body.text, HostOrigin)]))
     ELSE Outcome("passthrough", Send(up.status, headers, up.body))

\* axios with its defaults (root passes neither maxRedirects nor
\* validateStatus): a 3xx with a location is followed, any other status
\* outside [200,300) rejects
AxiosFollows(up) == up.status >= 300 /\ up.status < 400 /\ HasH(up.headers, "location")
AxiosRejects(up) == up.status < 200 \/ up.status >= 300

(***************************************************************************)
(* State                                                                   *)
(***************************************************************************)
VARIABLES
  variant,    \* the handler this deployment runs
  pc,         \* "idle", "awaiting" (the upstream call), "done", "escaped"
  req,        \* the inbound request
  targetUrl,  \* the handler's targetUrl
  upReq,      \* the upstream request in flight, or the last one issued
  upCalls,    \* upstream requests issued for this inbound request
  upstream,   \* the last upstream response received for this request
  res,        \* the response written to the client
  strategy    \* the branch of the classification the handler took

vars == <<variant, pc, req, targetUrl, upReq, upCalls, upstream, res, strategy>>

Init ==
  /\ variant \in Variants
  /\ pc = "idle"
  /\ req = NoReq
  /\ targetUrl = NoURL
  /\ upReq = NoUpReq
  /\ upCalls = 0
  /\ upstream = NoResponse
  /\ res = NoRes
  /\ strategy = "none"

\* an inbound request reaches an api handler, which runs to its await
ReceiveApi(url, c) ==
  LET r == [url |-> url, method |-> c.method, headers |-> c.headers]
      s == StartApi(r)
  IN /\ pc = "idle"
     /\ variant \in ApiVariants
     /\ req' = r
     /\ targetUrl' = s.targetUrl
     /\ upReq' = s.upReq
     /\ upCalls' = IF s.forward THEN 1 ELSE 0
     /\ res' = s.res
     /\ strategy' = "none"
     /\ pc' = IF s.forward THEN "awaiting" ELSE "done"
     /\ UNCHANGED <<variant, upstream>>

\* an inbound request reaches root, which runs to its await
ReceiveRoot(url, c) ==
  LET r == [url |-> url, method |-> c.method, headers |-> c.headers]
      s == StartRoot(r)
  IN /\ pc = "idle"
     /\ variant = "root"
     /\ req' = r
     /\ targetUrl' = s.targetUrl
     /\ upReq' = s.upReq
     /\ upCalls' = IF s.forward THEN 1 ELSE 0
     /\ res' = s.res
     /\ strategy' = "none"
     /\ pc' = IF s.forward THEN "awaiting" ELSE IF s.escaped THEN "escaped" ELSE "done"
     /\ UNCHANGED <<variant, upstream>>

\* the upstream answers an api handler: axios resolves with any status
\* (validateStatus: true, maxRedirects: 0) and the handler runs to its end
ReplyApi(up) ==
  LET o == FinishApi(variant, targetUrl, up)
  IN /\ pc = "awaiting"
     /\ variant \in ApiVariants
     /\ upstream' = up
     /\ res' = o.res
     /\ strategy' = o.strategy
     /\ pc' = "done"
     /\ UNCHANGED <<variant, req, targetUrl, upReq, upCalls>>

\* the upstream answers root with a redirect: axios follows it with a new
\* upstream request, and the handler keeps waiting
FollowRoot(up) ==
  LET next == ParseURL(up.headers["location"], ParseURL(upReq.url, NoURL))
  IN /\ pc = "awaiting"
     /\ variant = "root"
     /\ AxiosFollows(up)
     /\ upCalls <= MaxRedirects
     /\ next.ok
     /\ upReq' = [upReq EXCEPT !.url = Serialize(next)]
     /\ upCalls' = upCalls + 1
     /\ upstream' = up
     /\ UNCHANGED <<variant, pc, req, targetUrl, res, strategy>>

\* the upstream answers root and axios settles: it rejects on a redirect it
\* cannot follow and on a status outside [200,300), else the handler runs on
ReplyRoot(up) ==
  LET follows == AxiosFollows(up) /\ upCalls <= MaxRedirects
                   /\ ParseURL(up.headers["location"], ParseURL(upReq.url, NoURL)).ok
      o == IF AxiosRejects(up) THEN Outcome("none", CatchRoot) ELSE FinishRoot(targetUrl, up)
  IN /\ pc = "awaiting"
     /\ variant = "root"
     /\ ~follows
     /\ upstream' = up
     /\ res' = o.res
     /\ strategy' = o.strategy
     /\ pc' = "done"
     /\ UNCHANGED <<variant, req, targetUrl, upReq, upCalls>>

\* the upstream call fails at the network level: axios rejects with an error
\* that carries no response
NetworkError ==
  /\ pc = "awaiting"
  /\ res' = IF variant = "root" THEN CatchRoot ELSE CatchApi(NoHeaders)
  /\ strategy' = "none"
  /\ pc' = "done"
  /\ UNCHANGED <<variant, req, targetUrl, upReq, upCalls, upstream>>

\* the request is over; the handlers keep nothing from one request to the next
NextRequest ==
  /\ pc \in {"done", "escaped"}
  /\ pc' = "idle"
  /\ req' = NoReq
  /\ targetUrl' = NoURL
  /\ upReq' = NoUpReq
  /\ upCalls' = 0
  /\ upstream' = NoResponse
  /\ res' = NoRes
  /\ strategy' = "none"
  /\ UNCHANGED variant

Next ==
  \/ \E url \in RequestUrls, c \in ClientRequests : ReceiveApi(url, c)
  \/ \E url \in RequestUrls, c \in ClientRequests : ReceiveRoot(url, c)
  \/ \E up \in UpstreamResponses : ReplyApi(up)
  \/ \E up \in UpstreamResponses : FollowRoot(up)
  \/ \E up \in UpstreamResponses : ReplyRoot(up)
  \/ NetworkError
  \/ NextRequest

Spec == Init /\ [][Next]_vars

(***************************************************************************)
(* Properties                                                              *)
(***************************************************************************)
Strategies == {"redirect", "markup", "source", "passthrough"}
Is3xx(up) == up.status >= 300 /\ up.status < 400
StripList == {"host", "origin", "referer", "content-length"}
\* the target the request path carries, as the handlers decode it
DecodedTarget(url) == DecodeURIComponent(Drop(url, Len(PREFIX)))

\* the strategy the classifier of the specification selects
ClaimedStrategy(up, url) ==
  LET ct == GetH(up.headers, "content-type")
      path == LowerStr(Pathname(url))
  IN IF Is3xx(up) /\ HasH(up.headers, "location") THEN "redirect"
     ELSE IF Includes(ct, T_html) THEN "markup"
     ELSE IF /\ \E e \in {<<".","j","s">>, <<".","t","s">>, <<".","m","j","s">>, <<".","c","j","s">>} : EndsWith(path, e)
             /\ \/ Includes(ct, T_javascript)
                \/ Includes(ct, T_typescript)
                \/ Includes(ct, T_plain)
          THEN "source"
          ELSE "passthrough"

\* C1: every upstream response is handled by exactly the strategy the fixed
\* priority order selects (Redirect, then Markup, then Source-Text, then
\* Passthrough), and a redirect is never body-rewritten.
C1_StrategyByPriority ==
  (pc = "done" /\ upstream # NoResponse) =>
    /\ strategy = ClaimedStrategy(upstream, targetUrl)
    /\ (strategy = "redirect" /\ res.error = "") => res.body = EmptyBody

\* The api handlers classify as C1 says.
C1_ApiHandlers == variant \in ApiVariants => C1_StrategyByPriority

\* the path after the prefix is empty, fails percent-decoding, or does not
\* yield a valid http/https URL
BadTarget(url) ==
  \/ Drop(url, Len(PREFIX)) = <<>>
  \/ ~DecodedTarget(url).ok
  \/ ~isValidUrl(Coerce(DecodedTarget(url).v))

\* C2: a request whose target is empty, undecodable or invalid is answered
\* 400 with an error payload, and no upstream request is issued for it.
C2_BadTargetIs400 ==
  (pc # "idle" /\ StartsWith(req.url, PREFIX) /\ BadTarget(req.url)) =>
    /\ pc = "done"
    /\ res.sent /\ res.status = 400 /\ res.error # ""
    /\ upCalls = 0

\* The api handlers refuse as C2 says.
C2_ApiHandlers == variant \in ApiVariants => C2_BadTargetIs400

\* the decoded target names a scheme other than http and https
ForeignScheme(url) ==
  LET d == DecodedTarget(url)
      n == SchemeLen(d.v)
  IN d.ok /\ n > 0 /\ LowerStr(SubSeq(d.v, 1, n)) \notin {S_http, S_https}

\* C3: the targets "", "ftp://x" and "not a url", and every target whose
\* scheme is not http or https, are rejected (400) and never forwarded.
C3_RejectsNonHttp ==
  (/\ pc # "idle"
   /\ \/ req.url \in {PREFIX \o EncodeURIComponent(u) : u \in {<<>>, U_ftp, U_notaurl}}
      \/ (StartsWith(req.url, PREFIX) /\ ForeignScheme(req.url))) =>
    /\ upCalls = 0
    /\ res.sent /\ res.status = 400

\* C4: every response a strategy produced from an upstream response carries
\* Access-Control-Allow-Origin, -Allow-Headers and -Expose-Headers, all "*".
C4_AllCorsHeaders ==
  (pc = "done" /\ strategy \in Strategies /\ res.error = "") =>
    \A n \in {ACAO, ACAH, ACEH} : HasH(res.headers, n) /\ res.headers[n] = Star

\* C5: a 3xx upstream response with a location that resolves is answered
\* with the same status, an empty body and Location = proxy origin + prefix
\* + percent-encode(location resolved against the target URL).
C5_RedirectRewritten ==
  (/\ pc # "idle"
   /\ Is3xx(upstream) /\ HasH(upstream.headers, "location")
   /\ ParseURL(GetH(upstream.headers, "location"), targetUrl).ok) =>
    /\ pc = "done"
    /\ res.sent /\ res.status = upstream.status /\ res.body = EmptyBody
    /\ HasH(res.headers, "location")
    /\ res.headers["location"] =
         HostOrigin \o PREFIX
           \o EncodeURIComponent(
                Serialize(ParseURL(upstream.headers["location"], targetUrl)))

\* The api handlers rewrite redirects as C5 says.
C5_ApiHandlers == variant \in ApiVariants => C5_RedirectRewritten

\* C6: a response whose body the Markup or Source-Text strategy produced
\* carries neither the upstream content-length nor the upstream
\* content-encoding, and no response carries host.
C6_NoStaleHeaders ==
  (pc = "done" /\ res.sent) =>
    /\ ~HasH(res.headers, "host")
    /\ (strategy \in {"markup", "source"} /\ res.error = "") =>
         /\ ~HasH(res.headers, "content-encoding")
         /\ GetH(res.headers, "content-length") # UpValue("content-length")

\* api2 drops both headers as C6 says.
C6_Api2Handler == variant = "api2" => C6_NoStaleHeaders

\* C7: the upstream request carries the client's headers without host,
\* origin, referer and content-length, every other one unchanged.
C7_RequestHeadersStripped ==
  (pc = "awaiting" /\ upCalls >= 1) => upReq.headers = DelH(req.headers, StripList)

\* The api handlers strip as C7 says.
C7_ApiHandlers == variant \in ApiVariants => C7_RequestHeadersStripped

\* the value C8 has written for one srcset candidate
ClaimedCandidate(part, url) ==
  LET t == Trim(part)
      n == RunLen(t, WhiteSpace)
      d == Trim(Drop(t, n))
      u == ParseURL(SubSeq(t, 1, n), url)
  IN IF u.ok
     THEN HostOrigin \o PREFIX \o EncodeURIComponent(Serialize(u))
            \o (IF d = <<>> THEN <<>> ELSE <<" ">> \o d)
     ELSE part
\* the value C8 has written for the attribute of el
ClaimedValue(el, url) ==
  IF el.attr = "srcset"
  THEN LET parts == Split(el.val, ",")
       IN JoinComma([i \in 1..Len(parts) |-> ClaimedCandidate(parts[i], url)])
  ELSE LET u == ParseURL(el.val, url)
       IN IF u.ok THEN HostOrigin \o PREFIX \o EncodeURIComponent(Serialize(u))
          ELSE el.val
\* the attributes C8 is about
InMarkupScope(el) ==
  \/ <<el.tag, el.attr>> \in AttrPairs
  \/ (el.tag \in {"img", "source"} /\ el.attr = "srcset")

\* C8: the Markup strategy writes, for each of img.src, script.src,
\* link.href, a.href, form.action and each srcset candidate of img/source,
\* proxy origin + prefix + percent-encode(value resolved against the target
\* URL); a value that does not parse stays as it was and does not stop the
\* rewrite of the others.
C8_MarkupRewritten ==
  (pc = "done" /\ strategy = "markup") =>
    /\ res.error = ""
    /\ Len(res.body.elems) = Len(upstream.body.elems)
    /\ \A i \in 1..Len(upstream.body.elems) :
         InMarkupScope(upstream.body.elems[i]) =>
           res.body.elems[i].val = ClaimedValue(upstream.body.elems[i], targetUrl)

\* The api handlers rewrite markup as C8 says.
C8_ApiHandlers == variant \in ApiVariants => C8_MarkupRewritten

\* the text C9 describes: each delimiter-bounded absolute URL that the
\* handler's own expression matches, replaced once by its proxy address
ClaimedSourceText(v, text) ==
  IF v = "root" THEN ReplaceUrls(text, HostOrigin, CloseDelims, FALSE)
  ELSE ReplaceUrls(text, HostOrigin, CloseDelims \cup WhiteSpace, TRUE)

\* C9: the Source-Text strategy replaces every delimiter-bounded absolute
\* http(s) URL by the same delimiters around proxy origin + prefix +
\* percent-encode(url), and leaves all other text as it was.
C9_SourceTextRewritten ==
  (pc = "done" /\ strategy = "source" /\ res.error = "") =>
    res.body.text = ClaimedSourceText(variant, upstream.body.text)

\* C10, as stated: the URL string forwarded to, and used as the rewrite
\* base, for the path prefix + percent-encode(u) is u itself.
C10_RoundTripIsIdentity ==
  \A u \in TargetInputs :
    (isValidUrl(u) /\ pc = "awaiting" /\ upCalls = 1
       /\ req.url = PREFIX \o EncodeURIComponent(u)) =>
      upReq.url = u /\ Serialize(targetUrl) = u

\* C10, amended: the handler forwards the path prefix + percent-encode(u),
\* u a valid absolute http/https URL, to the serialization of u as a URL
\* (new URL(u).toString()), which is also the rewrite base; that is u itself
\* when u is written in its serialized form.
C10_RoundTripIsSerialization ==
  \A u \in TargetInputs :
    (isValidUrl(u) /\ pc # "idle" /\ req.url = PREFIX \o EncodeURIComponent(u)) =>
      /\ upCalls >= 1
      /\ targetUrl = ParseURL(u, NoURL)
      /\ upCalls = 1 => upReq.url = Serialize(ParseURL(u, NoURL))
      /\ (upCalls = 1 /\ Serialize(ParseURL(u, NoURL)) = u) => upReq.url = u

\* Witness of C10: a target written without its path is forwarded to with it.
C10_Witness ==
  /\ pc = "awaiting" /\ upCalls = 1
  /\ req.url = PREFIX \o EncodeURIComponent(U_bare)
  /\ upReq.url = U_bare \o <<"/">>

\* a dynamic import of url written with the quote q
ImportCall(q, url) == W_import \o <<"(", q>> \o url \o <<q, ")">>

\* the absolute URLs the upstream code bodies import
ImportTargets == {<<"h","t","t","p","s",":","/","/","x","/">>}

\* C11: after the Source-Text strategy a dynamic import of an absolute
\* http(s) URL reads import(q + proxy origin + prefix + percent-encode(URL)
\* + q) with its own quote q, the URL encoded exactly once: decoding the part
\* after proxy origin + prefix once gives the URL back.
C11_ImportEncodedOnce ==
  \A q \in Quotes, u \in ImportTargets :
    (pc = "done" /\ strategy = "source" /\ res.error = ""
       /\ upstream.body.text = ImportCall(q, u)) =>
      /\ res.body.text = ImportCall(q, Proxied(HostOrigin, u))
      /\ LET inner == SubSeq(res.body.text, Len(W_import) + 3, Len(res.body.text) - 2)
         IN /\ StartsWith(inner, HostOrigin \o PREFIX)
            /\ DecodeURIComponent(Drop(inner, Len(HostOrigin \o PREFIX))) = Ok(u)

\* C12: an inbound request causes at most one upstream request: a 3xx is
\* never followed by the proxy, a status outside 2xx goes to the
\* classification instead of raising an error, and a failed call is not
\* retried.
C12_AtMostOneUpstreamRequest ==
  /\ upCalls <= 1
  /\ (pc = "done" /\ upstream # NoResponse /\ (upstream.status < 200 \/ upstream.status >= 300)) =>
       strategy # "none"
  /\ (pc = "done" /\ upCalls >= 1 /\ upstream = NoResponse) =>
       res.sent /\ res.error # "" /\ upCalls = 1

\* The api handlers issue one upstream request per inbound request, as C12 says.
C12_ApiHandlers == variant \in ApiVariants => C12_AtMostOneUpstreamRequest

\* C13: every failure while a request is handled is caught in the handler
\* and answered with exactly one error response: no exception leaves the
\* handler, and a failure of the upstream call or of a rewrite is answered
\* 5xx with an error payload and Access-Control-Allow-Origin: *.
C13_AllFailuresCaught ==
  /\ pc # "escaped"
  /\ pc = "done" => res.sent
  /\ (pc = "done" /\ res.error # "" /\ upCalls >= 1) =>
       /\ res.status >= 500 /\ res.status < 600
       /\ GetH(res.headers, ACAO) = Star

\* The api handlers catch every failure, as C13 says.
C13_ApiHandlers == variant \in ApiVariants => C13_AllFailuresCaught

====
